---- MODULE Spec2Model ----
(***************************************************************************)
(* Movie search / favorites backend: the Catalog Service (MovieService),   *)
(* the Favorites Store (FileFavoritesAdapter, a JSON file with an          *)
(* in-memory cache) and the requests that run against them on one Node.js  *)
(* event loop.                                                             *)
(*                                                                         *)
(* Strings are sequences of one-character strings, so that trim() and      *)
(* toLowerCase() are computed and not assumed.  A JavaScript object is a   *)
(* record; a key whose value is undefined is dropped by JSON.stringify.    *)
(***************************************************************************)
EXTENDS Integers, Sequences, FiniteSets, TLC

\* ------------------------------------------------------------------ bounds
MaxCalls == 2          \* calls issued in one behaviour
MaxLen == 4            \* size of the collections getFavorites is tried on

\* ------------------------------------------------------- JavaScript values
Undefined == <<"undefined">>      \* the value of an absent property
NotAString == <<"number">>        \* some value whose typeof is not "string"

Space == " "

RECURSIVE TrimLeft(_)
TrimLeft(s) ==
  IF s = <<>> THEN s
  ELSE IF Head(s) = Space THEN TrimLeft(Tail(s)) ELSE s

RECURSIVE TrimRight(_)
TrimRight(s) ==
  IF s = <<>> THEN s
  ELSE IF s[Len(s)] = Space THEN TrimRight(SubSeq(s, 1, Len(s) - 1)) ELSE s

\* String.prototype.trim
Trim(s) == TrimRight(TrimLeft(s))

LowerChar(c) == IF c = "A" THEN "a" ELSE IF c = "B" THEN "b" ELSE c

\* String.prototype.toLowerCase
ToLowerCase(s) == [i \in 1..Len(s) |-> LowerChar(s[i])]

\* typeof v === "string"
IsString(v) == v # Undefined /\ v # NotAString

\* o.k for an object o
Get(o, k) == IF k \in DOMAIN o THEN o[k] ELSE Undefined

\* JSON.parse(JSON.stringify(o)) for one object: undefined-valued keys vanish
JsonObject(o) == [k \in {j \in DOMAIN o : o[j] # Undefined} |-> o[k]]

\* JSON.parse(JSON.stringify(a)) for an array of objects
JsonArray(a) == [i \in 1..Len(a) |-> JsonObject(a[i])]

\* a JavaScript number: whole + 1/2 when half is set, or NaN
Num(n) == [whole |-> n, half |-> FALSE, nan |-> FALSE]
AndAHalf(n) == [whole |-> n, half |-> TRUE, nan |-> FALSE]
NaN == [whole |-> 0, half |-> FALSE, nan |-> TRUE]

\* x < n and x > n for an integer n; every comparison with NaN is false
Less(x, n) == ~x.nan /\ x.whole < n
Greater(x, n) == ~x.nan /\ (x.whole > n \/ (x.whole = n /\ x.half))

\* Number.isInteger(x)
IsInteger(x) == ~x.nan /\ ~x.half

\* ------------------------------------------------------------------ inputs
Mv(t, id, y, p, f) ==
  [title |-> t, imdbID |-> id, year |-> y, poster |-> p, isFavorite |-> f]

MovieInputs ==
  { Mv(<<"x">>, <<"a">>, <<"1">>, <<"u">>, Undefined),
    Mv(<<" ", "x">>, <<" ", "a">>, Undefined, Undefined, <<"true">>),
    Mv(<<"x">>, <<"A">>, <<"1">>, <<"u">>, Undefined),
    Mv(<<"x">>, <<"b">>, <<"1">>, <<"u">>, Undefined),
    Mv(<<>>, <<"a">>, <<"1">>, <<"u">>, Undefined),
    Mv(<<"x">>, <<>>, <<"1">>, <<"u">>, Undefined),
    Mv(<<"x">>, <<" ">>, <<"1">>, <<"u">>, Undefined) }

IdInputs == { <<>>, <<" ">>, <<"a">>, <<" ", "a">>, <<"A">>, <<"b">> }

PageInputs == {Num(n) : n \in 0..3} \cup {AndAHalf(0), AndAHalf(1), NaN}
PageSizeInputs ==
  {Num(n) : n \in {0, 1, 2, 3, 100, 101}} \cup {AndAHalf(1), AndAHalf(100), NaN}

TitleInputs == { <<>>, <<" ">>, <<" ", "x">> }
SearchPageInputs == { Num(0), Num(1), AndAHalf(1), Num(2), NaN }

\* an entry of a hand-edited file that loadFromFile filters out
BadItem == [title |-> <<"x">>, imdbID |-> NotAString]

\* --------------------------------------------------------- durable medium
AbsentFile == [kind |-> "absent", items |-> <<>>]
ArrayFile(a) == [kind |-> "array", items |-> a]
ObjectFile == [kind |-> "object", items |-> <<>>]   \* valid JSON, not an array
GarbageFile == [kind |-> "garbage", items |-> <<>>] \* JSON.parse throws

StoredA == JsonObject([title |-> <<"x">>, imdbID |-> <<"a">>,
                       year |-> <<"1">>, poster |-> <<"u">>])

InitFiles ==
  { AbsentFile, ArrayFile(<<>>), ObjectFile, GarbageFile,
    ArrayFile(<<BadItem, StoredA>>) }

EmptyFiles == { AbsentFile, ArrayFile(<<>>) }

WriteOutcomes == {"ok", "throw"}

RECURSIVE SelectValid(_)
SelectValid(a) ==
  IF a = <<>> THEN <<>>
  ELSE LET rest == SelectValid(Tail(a))
       IN  IF IsString(Get(Head(a), "imdbID")) /\ IsString(Get(Head(a), "title"))
           THEN <<Head(a)>> \o rest
           ELSE rest

\* saveToFile with a write that fails half way and leaves a truncated file
SaveToFile_Truncating(f, favs, w) ==
  IF w = "ok"
  THEN [file |-> [kind |-> "array", items |-> JsonArray(favs)], threw |-> FALSE]
  ELSE [file |-> [kind |-> "garbage", items |-> <<>>], threw |-> TRUE]

\* fs.writeFileSync(filePath, JSON.stringify(favorites)) inside saveToFile:
\* the new content on success, a StorageException on failure
SaveToFile(f, favs, w) ==
  IF w = "ok"
  THEN [file |-> ArrayFile(JsonArray(favs)), threw |-> FALSE]
  ELSE [file |-> f, threw |-> TRUE]

\* a loadFromFile that writes the entries it kept back to the file, inside the
\* same try block: a failed write lands in the catch and empties this.favorites
LoadFromFile_Rewriting(f, w) ==
  IF f.kind = "array"
  THEN LET s == SaveToFile(f, SelectValid(f.items), w)
       IN  [file |-> s.file,
            favorites |-> IF s.threw THEN <<>> ELSE SelectValid(f.items),
            wtried |-> TRUE, wfail |-> s.threw]
  ELSE IF f.kind = "absent"
  THEN LET s == SaveToFile(f, <<>>, w)
       IN  [file |-> s.file, favorites |-> <<>>,
            wtried |-> TRUE, wfail |-> s.threw]
  ELSE [file |-> f, favorites |-> <<>>, wtried |-> FALSE, wfail |-> FALSE]

\* loadFromFile: the new this.favorites, the file afterwards, whether it
\* attempted a write and whether that write failed (the catch block swallows
\* the failure)
LoadFromFile(f, w) ==
  IF f.kind = "array"
  THEN [file |-> f, favorites |-> SelectValid(f.items),
        wtried |-> FALSE, wfail |-> FALSE]
  ELSE IF f.kind = "absent"
  THEN LET s == SaveToFile(f, <<>>, w)
       IN  [file |-> s.file, favorites |-> <<>>,
            wtried |-> TRUE, wfail |-> s.threw]
  ELSE [file |-> f, favorites |-> <<>>, wtried |-> FALSE, wfail |-> FALSE]

\* what every store read returns for a given content of the medium
Durable(f) == LoadFromFile(f, "throw").favorites

\* Array.prototype.findIndex with the case-insensitive imdbID match; 0 = -1
RECURSIVE FindIndexFrom(_, _, _)
FindIndexFrom(favs, id, i) ==
  IF i > Len(favs) THEN 0
  ELSE IF ToLowerCase(favs[i].imdbID) = ToLowerCase(id) THEN i
  ELSE FindIndexFrom(favs, id, i + 1)

FindIndex(favs, id) == FindIndexFrom(favs, id, 1)

\* a lookup that compares the imdbID as written
Exists_CaseSensitive(favs, id) == \E i \in 1..Len(favs) : favs[i].imdbID = id

\* findByImdbId(...) !== undefined
Exists(favs, id) == FindIndex(favs, id) # 0

\* favorites.splice(i): everything from index i on goes
Splice_ToEnd(favs, i) == SubSeq(favs, 1, i - 1)

\* favorites.splice(i, 1)
Splice(favs, i) == SubSeq(favs, 1, i - 1) \o SubSeq(favs, i + 1, Len(favs))

\* outcome of a call: a returned value or a thrown exception
NoRes == [kind |-> "none", val |-> [error |-> "none"]]
Ok(v) == [kind |-> "ok", val |-> v]
Err(e) == [kind |-> "error", val |-> [error |-> e]]

\* -------------------------------------------------------- Search Gateway
\* what axios.get settles with: a response carrying a body, a response whose
\* body is null, an AxiosError (status 0: no response arrived), or any other
\* thrown value.  A body is an object in which optional keys may be missing.
NoData == [none |-> TRUE]
Response200(d) == [kind |-> "response", data |-> d, code |-> "", status |-> 200]
NullBody == [kind |-> "null_body", data |-> NoData, code |-> "", status |-> 200]
AxiosError(c, st) == [kind |-> "axios_error", data |-> NoData, code |-> c, status |-> st]
OtherError == [kind |-> "error", data |-> NoData, code |-> "", status |-> 0]
NoAnswer == [kind |-> "none", data |-> NoData, code |-> "", status |-> 0]

OmdbMovie(t, id) ==
  [Title |-> t, Year |-> <<"1">>, imdbID |-> id, Type |-> <<"m">>, Poster |-> <<"u">>]

OmdbA == OmdbMovie(<<"x">>, <<"a">>)
OmdbUpperA == OmdbMovie(<<"y">>, <<"A">>)
OmdbB == OmdbMovie(<<"x">>, <<"b">>)

ProviderBodies ==
  { [Response |-> "True", Search |-> <<OmdbB, OmdbUpperA>>, totalResults |-> "12"],
    [Response |-> "True", Search |-> <<OmdbA>>, totalResults |-> "1"],
    [Response |-> "True", Search |-> <<OmdbA>>],
    [Response |-> "True", totalResults |-> "3"],
    [Response |-> "False", Error |-> "Movie not found!"],
    [Response |-> "True", Error |-> "Too many results.", Search |-> <<OmdbA>>,
     totalResults |-> "1"] }

ProviderOutcomes ==
  { Response200(d) : d \in ProviderBodies }
    \cup { NullBody, OtherError,
           AxiosError("ECONNREFUSED", 0),
           AxiosError("ERR_BAD_REQUEST", 401), AxiosError("ERR_BAD_RESPONSE", 500) }

Has(o, k) == k \in DOMAIN o

\* the value is truthy: present and not the empty string
Truthy(o, k) == Has(o, k) /\ o[k] # ""

\* handleError without the ECONNABORTED case
HandleError_NoTimeoutCase(o) ==
  IF o.kind = "axios_error" /\ o.status = 401 THEN Err("InvalidApiKey")
  ELSE Err("ExternalApi")

\* handleError without the 401 case
HandleError_NoApiKeyCase(o) ==
  IF o.kind = "axios_error" /\ o.code = "ECONNABORTED" THEN Err("ExternalApiTimeout")
  ELSE Err("ExternalApi")

\* OmdbAdapter.handleError
HandleError(o) ==
  IF o.kind = "axios_error" /\ o.code = "ECONNABORTED" THEN Err("ExternalApiTimeout")
  ELSE IF o.kind = "axios_error" /\ o.status = 401 THEN Err("InvalidApiKey")
  ELSE Err("ExternalApi")

\* the provider's record as a domain Movie
ToMovie(m) ==
  [title |-> m.Title, imdbID |-> m.imdbID, year |-> m.Year, poster |-> m.Poster]

\* the body of OmdbAdapter.search after axios.get returned a response
SearchResponse(d) ==
  IF (Has(d, "Response") /\ d.Response = "False") \/ Truthy(d, "Error")
  THEN Ok([movies |-> <<>>, totalResults |-> "0"])
  ELSE LET found == IF Has(d, "Search") THEN d.Search ELSE <<>>
       IN  Ok([movies |-> [i \in 1..Len(found) |-> ToMovie(found[i])],
               totalResults |-> IF Truthy(d, "totalResults")
                                THEN d.totalResults ELSE "0"])

\* a search that takes the provider's "no results" answer for a failure
OmdbSearch_NoResultsThrows(o) ==
  IF o.kind = "response"
  THEN IF (Has(o.data, "Response") /\ o.data.Response = "False")
            \/ Truthy(o.data, "Error")
       THEN Err("ExternalApi")
       ELSE SearchResponse(o.data)
  ELSE HandleError(o)

\* OmdbAdapter.search, given what axios.get settled with; reading a property
\* of a null body throws inside the try block
OmdbSearch(o) ==
  IF o.kind = "response" THEN SearchResponse(o.data) ELSE HandleError(o)

\* ------------------------------------------------------- Catalog Service
\* the title check without trim()
InvalidTitle_Untrimmed(title) == title = <<>>

\* !title || title.trim().length === 0
InvalidTitle(title) == title = <<>> \/ Len(Trim(title)) = 0

\* !movie.imdbID || !movie.title
InvalidMovie(m) == m.imdbID = <<>> \/ m.title = <<>>

MovieToSave(m) ==
  [title |-> Trim(m.title), imdbID |-> Trim(m.imdbID),
   year |-> m.year, poster |-> m.poster]

\* addToFavorites without the duplicate check
ThrowsDuplicate_Never(exists) == FALSE

\* if (exists) throw new MovieAlreadyExistsException(movie.imdbID)
ThrowsDuplicate(exists) == exists

\* removeFromFavorites returning an error object where it should throw
RemoveResult_Returned(removed) ==
  IF removed = <<>> THEN Ok([error |-> "MovieNotFound"]) ELSE Ok(removed[1])

\* if (!removedMovie) throw new MovieNotFoundException(imdbID); return removedMovie
\* (what remove resolved with is a list: empty for undefined, else the movie)
RemoveResult(removed) ==
  IF removed = <<>> THEN Err("MovieNotFound") ELSE Ok(removed[1])

\* !imdbID || imdbID.trim().length === 0
InvalidId(id) == id = <<>> \/ Len(Trim(id)) = 0

\* page < 1 || !Number.isInteger(page)
InvalidPage(page) == Less(page, 1) \/ ~IsInteger(page)

\* the page size check without Number.isInteger
InvalidPageSize_NoIntegerCheck(pageSize) ==
  Less(pageSize, 1) \/ Greater(pageSize, 100)

\* pageSize < 1 || pageSize > 100 || !Number.isInteger(pageSize)
InvalidPageSize(pageSize) ==
  Less(pageSize, 1) \/ Greater(pageSize, 100) \/ ~IsInteger(pageSize)

Min(a, b) == IF a < b THEN a ELSE b

\* a slice that clamps a start beyond the end onto the last element
Slice_Clamped(a, start, end) ==
  SubSeq(a, Min(start, Len(a) - 1) + 1, Min(end, Len(a)))

\* Array.prototype.slice(start, end), zero-based, end exclusive
Slice(a, start, end) == SubSeq(a, start + 1, Min(end, Len(a)))

\* Math.floor in the place of Math.ceil
Ceil_Floor(n, d) == n \div d

\* Math.ceil(n / d) for n >= 0, d > 0
Ceil(n, d) == (n + d - 1) \div d

\* getFavorites counting pages from zero
FavoritesList_ZeroBased(all, page, pageSize) ==
  IF Len(all) = 0
  THEN [favorites |-> <<>>, count |-> 0, totalResults |-> 0,
        currentPage |-> page, totalPages |-> 0]
  ELSE LET startIndex == page * pageSize
           endIndex == startIndex + pageSize
           paginated == Slice(all, startIndex, endIndex)
       IN  [favorites |-> paginated, count |-> Len(paginated),
            totalResults |-> Len(all), currentPage |-> page,
            totalPages |-> Ceil(Len(all), pageSize)]

FavoritesList(all, page, pageSize) ==
  IF Len(all) = 0
  THEN [favorites |-> <<>>, count |-> 0, totalResults |-> 0,
        currentPage |-> page, totalPages |-> 0]
  ELSE LET startIndex == (page - 1) * pageSize
           endIndex == startIndex + pageSize
           paginated == Slice(all, startIndex, endIndex)
       IN  [favorites |-> paginated, count |-> Len(paginated),
            totalResults |-> Len(all), currentPage |-> page,
            totalPages |-> Ceil(Len(all), pageSize)]

\* ------------------------------------------------------------------ state
Tasks == {"r1", "r2"}     \* the requests in flight on the event loop
NoTask == "none"

VARIABLES
  file,        \* content of data/favorites.json
  favorites,   \* FileFavoritesAdapter.favorites
  pc,          \* per request: where it stands
  op,          \* per request: the operation it runs
  arg,         \* per request: the argument it was called with
  loc,         \* per request: its local (exists / movieToSave / key, removed / allFavorites)
  res,         \* per request: its outcome once pc = "done"
  cpu,         \* the request running synchronous code, or NoTask
  serial,      \* TRUE when the caller awaits each call before the next
  calls,       \* calls issued so far
  pre,         \* per request: what store reads returned when it was called
  touched,     \* per request: a step of this call changed what store reads return
  wtried,      \* per request: this call attempted a write of the file
  wfail,       \* per request: a write this call attempted has failed
  reads,       \* per request: this call invoked an operation of the store
  gcalls,      \* per request: the arguments of its calls of movieSearchPort.search
  answer,      \* per request: what axios.get settled with
  gout,        \* per request: what its call of movieSearchPort.search settled with
  last,        \* the call the caller consumed last
  ui           \* the browser: the search page and its query and mutations

vars == <<file, favorites, pc, op, arg, loc, res, cpu, serial, calls,
          pre, touched, wtried, wfail, reads, gcalls, answer, gout, last, ui>>

\* the state of the backend process
backend == <<file, favorites, pc, op, arg, loc, res, cpu, serial, calls,
             pre, touched, wtried, wfail, reads, gcalls, answer, gout, last>>

NoArg == [none |-> TRUE]
NoLoc == [none |-> TRUE]
NoLast == [op |-> "none", arg |-> NoArg, res |-> NoRes, pre |-> <<>>]

\* the await points if the store awaited an asynchronous write of the file
AwaitPoints_AsyncWrite ==
  {"add_await_exists", "add_await_save", "remove_await", "get_await",
   "gateway_wait", "search_await_gateway", "search_await_all",
   "save_pushed", "remove_spliced"}

\* the positions at which a request is suspended at an await of MovieService
AwaitPoints ==
  {"add_await_exists", "add_await_save", "remove_await", "get_await",
   "gateway_wait", "search_await_gateway", "search_await_all"}

\* the thread given up between one exists lookup of a search and the next
Holder_YieldingLookups(t, p) ==
  IF p \in AwaitPoints \cup {"done", "idle", "search_mapping"} THEN NoTask ELSE t

\* after a step that leaves request t at position p: who holds the thread
Holder(t, p) == IF p \in AwaitPoints \cup {"done", "idle"} THEN NoTask ELSE t

\* request t may take its next step: at an await it needs the thread to be
\* free, inside synchronous code it is the one that holds it
Runnable(t) == cpu = Holder(t, pc[t])

\* ------------------------------------------------------ browser state
MaxSearches == 2      \* searches submitted on the search page
MaxClicks == 2        \* clicks on a favorite button

NoError == [kind |-> "none", status |-> 0]
ApiError(status) == [kind |-> "ApiError", status |-> status]

\* the query of useSearchMovies as its observer and retryer hold it
InitQuery ==
  [status |-> "idle", query |-> <<>>, failureCount |-> 0, attempts |-> 0,
   error |-> NoError, delay |-> 0, searches |-> 0]

\* useAddToFavorites / useRemoveFromFavorites: the mutation each observer
\* follows (0: none), the mutations in flight, and isPending of the two
\* hook results as the last render of the page captured them
InitMutations ==
  [current |-> [add |-> 0, remove |-> 0], inflight |-> {},
   rendered |-> [add |-> FALSE, remove |-> FALSE], clicks |-> 0]

MaxFavorites == 21    \* favorites on the server when the favorites page opens
MaxRemoves == 1       \* clicks on a remove button of the favorites page
MaxNavigations == 1   \* clicks on the pagination of the favorites page

\* an entry of the query cache for ['movies', 'favorites', page]
NoEntry == [has |-> FALSE, ids |-> <<>>, totalPages |-> 0, stale |-> FALSE]

\* the favorites page: its currentPage, the query cache, the pages being
\* fetched, the remove mutations in flight, isPending of the remove hook as
\* last rendered, whether the effect has to run, and counters
InitFavoritesPage ==
  [mounted |-> FALSE, currentPage |-> 1,
   cache |-> [p \in 1..Ceil(MaxFavorites + 1, 10) |-> NoEntry],
   fetching |-> {}, inflight |-> {}, renderedPending |-> FALSE,
   effectDue |-> FALSE, removes |-> 0, navigations |-> 0, backs |-> 0]

InitUi == [q |-> InitQuery, m |-> InitMutations, f |-> InitFavoritesPage]

Constructed(f0, w) ==
  LET l == LoadFromFile(f0, w)
  IN  /\ file = l.file
      /\ favorites = l.favorites

InitRest ==
  /\ pc = [t \in Tasks |-> "idle"]
  /\ op = [t \in Tasks |-> "none"]
  /\ arg = [t \in Tasks |-> NoArg]
  /\ loc = [t \in Tasks |-> NoLoc]
  /\ res = [t \in Tasks |-> NoRes]
  /\ cpu = NoTask
  /\ calls = 0
  /\ pre = [t \in Tasks |-> <<>>]
  /\ touched = [t \in Tasks |-> FALSE]
  /\ wtried = [t \in Tasks |-> FALSE]
  /\ wfail = [t \in Tasks |-> FALSE]
  /\ reads = [t \in Tasks |-> FALSE]
  /\ gcalls = [t \in Tasks |-> <<>>]
  /\ answer = [t \in Tasks |-> NoAnswer]
  /\ gout = [t \in Tasks |-> NoRes]
  /\ last = NoLast
  /\ ui = InitUi

Init ==
  /\ \E f0 \in InitFiles, w \in WriteOutcomes : Constructed(f0, w)
  /\ serial = FALSE
  /\ InitRest

InitSerial ==
  /\ \E f0 \in InitFiles, w \in WriteOutcomes : Constructed(f0, w)
  /\ serial = TRUE
  /\ InitRest

\* a file the store wrote earlier: entries 1..n of a list of distinct records
Stored(i) ==
  JsonObject([title |-> <<"x">>, imdbID |-> [j \in 1..i |-> "a"],
              year |-> <<"1">>, poster |-> Undefined])

PagingFiles ==
  { ArrayFile([i \in 1..n |-> Stored(i)]) : n \in 0..MaxLen }
    \cup { AbsentFile, ObjectFile, GarbageFile }

InitPaging ==
  /\ \E f0 \in PagingFiles, w \in WriteOutcomes : Constructed(f0, w)
  /\ serial \in BOOLEAN
  /\ InitRest

InitSearch ==
  /\ \E f0 \in InitFiles, w \in WriteOutcomes : Constructed(f0, w)
  /\ serial \in BOOLEAN
  /\ InitRest

InitEmpty ==
  /\ \E f0 \in EmptyFiles, w \in WriteOutcomes : Constructed(f0, w)
  /\ serial \in BOOLEAN
  /\ InitRest

\* a request may be issued: the thread is free, the budget allows it, and a
\* serial caller has nothing else in flight
CanCall(t) ==
  /\ pc[t] = "idle"
  /\ cpu = NoTask
  /\ calls < MaxCalls
  /\ serial => \A u \in Tasks : pc[u] = "idle"
  /\ t = "r2" => pc["r1"] # "idle"      \* a new request takes the first free slot

\* bookkeeping shared by every step of request t
Step(t, p, l, r, f2, wa, wf, rd) ==
  /\ pc' = [pc EXCEPT ![t] = p]
  /\ loc' = [loc EXCEPT ![t] = l]
  /\ res' = [res EXCEPT ![t] = r]
  /\ cpu' = Holder(t, p)
  /\ touched' = [touched EXCEPT ![t] = @ \/ Durable(f2) # Durable(file)]
  /\ wtried' = [wtried EXCEPT ![t] = @ \/ wa]
  /\ wfail' = [wfail EXCEPT ![t] = @ \/ wf]
  /\ reads' = [reads EXCEPT ![t] = @ \/ rd]

\* a call is issued on request slot t
Call(t, o, a) ==
  /\ CanCall(t)
  /\ op' = [op EXCEPT ![t] = o]
  /\ arg' = [arg EXCEPT ![t] = a]
  /\ pre' = [pre EXCEPT ![t] = Durable(file)]
  /\ calls' = calls + 1
  /\ UNCHANGED <<serial, last, ui>>

\* a later step of a call
Proceed == UNCHANGED <<op, arg, pre, calls, serial, last, ui>>

\* the same for the use cases that never touch the Search Gateway
Begin(t, o, a) == Call(t, o, a) /\ UNCHANGED <<gcalls, answer, gout>>

Continue == Proceed /\ UNCHANGED <<gcalls, answer, gout>>

\* ------------------------------------------------------- addToFavorites
\* the call up to `await this.favoritesStoragePort.exists(movie.imdbID)`
AddCall(t, m) ==
  /\ Begin(t, "add", m)
  /\ IF InvalidMovie(m)
     THEN /\ Step(t, "done", NoLoc, Err("InvalidMovieData"), file, FALSE, FALSE, FALSE)
          /\ UNCHANGED <<file, favorites>>
     ELSE \E w \in WriteOutcomes :
            LET l == LoadFromFile(file, w)
            IN  /\ file' = l.file
                /\ favorites' = l.favorites
                /\ Step(t, "add_await_exists",
                        [exists |-> Exists(l.favorites, m.imdbID)], NoRes, l.file, l.wtried, l.wfail, TRUE)

\* resumes with the answer of exists; save() starts with loadFromFile
AddResume(t) ==
  /\ pc[t] = "add_await_exists"
  /\ Runnable(t)
  /\ Continue
  /\ IF ThrowsDuplicate(loc[t].exists)
     THEN /\ Step(t, "done", NoLoc, Err("MovieAlreadyExists"), file, FALSE, FALSE, FALSE)
          /\ UNCHANGED <<file, favorites>>
     ELSE \E w \in WriteOutcomes :
            LET l == LoadFromFile(file, w)
            IN  /\ file' = l.file
                /\ favorites' = l.favorites
                /\ Step(t, "save_loaded", MovieToSave(arg[t]), NoRes,
                        l.file, l.wtried, l.wfail, TRUE)

\* this.favorites.push(movie)
SavePush(t) ==
  /\ pc[t] = "save_loaded"
  /\ Runnable(t)
  /\ Continue
  /\ favorites' = Append(favorites, loc[t])
  /\ Step(t, "save_pushed", loc[t], NoRes, file, FALSE, FALSE, FALSE)
  /\ UNCHANGED file

\* this.saveToFile(); return Promise.resolve(movie)
SaveWrite(t) ==
  /\ pc[t] = "save_pushed"
  /\ Runnable(t)
  /\ Continue
  /\ \E w \in WriteOutcomes :
       LET s == SaveToFile(file, favorites, w)
       IN  /\ file' = s.file
           /\ IF s.threw
              THEN Step(t, "done", NoLoc, Err("Storage"), s.file, TRUE, TRUE, FALSE)
              ELSE Step(t, "add_await_save", loc[t], NoRes, s.file, TRUE, FALSE, FALSE)
  /\ UNCHANGED favorites

\* return savedMovie
AddReturn(t) ==
  /\ pc[t] = "add_await_save"
  /\ Runnable(t)
  /\ Continue
  /\ Step(t, "done", NoLoc, Ok(loc[t]), file, FALSE, FALSE, FALSE)
  /\ UNCHANGED <<file, favorites>>

\* -------------------------------------------------- removeFromFavorites
\* the call up to loadFromFile inside favoritesStoragePort.remove(imdbID.trim())
RemoveCall(t, id) ==
  /\ Begin(t, "remove", [imdbID |-> id])
  /\ IF InvalidId(id)
     THEN /\ Step(t, "done", NoLoc, Err("InvalidMovieData"), file, FALSE, FALSE, FALSE)
          /\ UNCHANGED <<file, favorites>>
     ELSE \E w \in WriteOutcomes :
            LET l == LoadFromFile(file, w)
            IN  /\ file' = l.file
                /\ favorites' = l.favorites
                /\ Step(t, "remove_loaded", [key |-> Trim(id)], NoRes,
                        l.file, l.wtried, l.wfail, TRUE)

\* findIndex; not found: Promise.resolve(undefined); found: splice
RemoveFind(t) ==
  /\ pc[t] = "remove_loaded"
  /\ Runnable(t)
  /\ Continue
  /\ LET index == FindIndex(favorites, loc[t].key)
     IN  IF index = 0
         THEN /\ Step(t, "remove_await", [removed |-> <<>>], NoRes,
                      file, FALSE, FALSE, FALSE)
              /\ UNCHANGED favorites
         ELSE /\ favorites' = Splice(favorites, index)
              /\ Step(t, "remove_spliced", [removed |-> <<favorites[index]>>],
                      NoRes, file, FALSE, FALSE, FALSE)
  /\ UNCHANGED file

\* this.saveToFile(); return Promise.resolve(removed)
RemoveWrite(t) ==
  /\ pc[t] = "remove_spliced"
  /\ Runnable(t)
  /\ Continue
  /\ \E w \in WriteOutcomes :
       LET s == SaveToFile(file, favorites, w)
       IN  /\ file' = s.file
           /\ IF s.threw
              THEN Step(t, "done", NoLoc, Err("Storage"), s.file, TRUE, TRUE, FALSE)
              ELSE Step(t, "remove_await", loc[t], NoRes, s.file, TRUE, FALSE, FALSE)
  /\ UNCHANGED favorites

\* if (!removedMovie) throw new MovieNotFoundException; return removedMovie
RemoveResume(t) ==
  /\ pc[t] = "remove_await"
  /\ Runnable(t)
  /\ Continue
  /\ Step(t, "done", NoLoc, RemoveResult(loc[t].removed), file, FALSE, FALSE, FALSE)
  /\ UNCHANGED <<file, favorites>>

\* --------------------------------------------------------- getFavorites
\* the call up to `await this.favoritesStoragePort.findAll()`
GetFavoritesCall(t, page, pageSize) ==
  /\ Begin(t, "get", [page |-> page, pageSize |-> pageSize])
  /\ IF InvalidPage(page) \/ InvalidPageSize(pageSize)
     THEN /\ Step(t, "done", NoLoc, Err("InvalidPagination"), file, FALSE, FALSE, FALSE)
          /\ UNCHANGED <<file, favorites>>
     ELSE \E w \in WriteOutcomes :
            LET l == LoadFromFile(file, w)
            IN  /\ file' = l.file
                /\ favorites' = l.favorites
                /\ Step(t, "get_await", [allFavorites |-> l.favorites], NoRes,
                        l.file, l.wtried, l.wfail, TRUE)

\* the rest of getFavorites, on the copy findAll returned
GetFavoritesResume(t) ==
  /\ pc[t] = "get_await"
  /\ Runnable(t)
  /\ Continue
  /\ Step(t, "done", NoLoc, Ok(FavoritesList(loc[t].allFavorites, arg[t].page.whole,
                           arg[t].pageSize.whole)),
          file, FALSE, FALSE, FALSE)
  /\ UNCHANGED <<file, favorites>>

\* --------------------------------------------------------- searchMovies
\* the call up to axios.get inside movieSearchPort.search(title.trim(), page)
SearchCall(t, title, page) ==
  /\ Call(t, "search", [title |-> title, page |-> page])
  /\ UNCHANGED <<file, favorites, answer, gout>>
  /\ IF InvalidTitle(title)
     THEN /\ Step(t, "done", NoLoc, Err("SearchQueryRequired"), file, FALSE, FALSE, FALSE)
          /\ UNCHANGED gcalls
     ELSE IF InvalidPage(page)
     THEN /\ Step(t, "done", NoLoc, Err("InvalidPagination"), file, FALSE, FALSE, FALSE)
          /\ UNCHANGED gcalls
     ELSE /\ Step(t, "gateway_wait", NoLoc, NoRes, file, FALSE, FALSE, FALSE)
          /\ gcalls' = [gcalls EXCEPT ![t] =
                          Append(@, [title |-> Trim(title), page |-> page])]

\* axios.get settles and OmdbAdapter.search returns or throws
GatewaySettle(t, o) ==
  /\ pc[t] = "gateway_wait"
  /\ Runnable(t)
  /\ Proceed
  /\ answer' = [answer EXCEPT ![t] = o]
  /\ gout' = [gout EXCEPT ![t] = OmdbSearch(o)]
  /\ Step(t, "search_await_gateway", NoLoc, NoRes, file, FALSE, FALSE, FALSE)
  /\ UNCHANGED <<file, favorites, gcalls>>

\* private readonly timeout = 10000, handed to axios.get as `timeout`
Timeout == 10000

\* axios.get given no timeout: no timer ever fires
GatewayTimeout_NoTimer(t) ==
  /\ FALSE
  /\ GatewaySettle(t, AxiosError("ECONNABORTED", 0))

\* the provider has not answered within the timeout: axios rejects with
\* ECONNABORTED
GatewayTimeout(t) ==
  /\ Timeout > 0
  /\ GatewaySettle(t, AxiosError("ECONNABORTED", 0))

\* searchMovies resumes with searchResult, or throws what the port threw; the
\* map over an empty list goes straight to the await of Promise.all
SearchResume(t) ==
  /\ pc[t] = "search_await_gateway"
  /\ Runnable(t)
  /\ Continue
  /\ UNCHANGED <<file, favorites>>
  /\ IF gout[t].kind = "error"
     THEN Step(t, "done", NoLoc, gout[t], file, FALSE, FALSE, FALSE)
     ELSE Step(t, IF gout[t].val.movies = <<>> THEN "search_await_all"
                  ELSE "search_mapping",
               [searchResult |-> gout[t].val, enriched |-> <<>>,
                observed |-> <<>>], NoRes,
               file, FALSE, FALSE, FALSE)

\* one callback of the map, up to its await: exists(movie.imdbID) reloads the
\* file and looks the imdbID up; the callbacks run back to back
SearchExists(t) ==
  /\ pc[t] = "search_mapping"
  /\ Runnable(t)
  /\ Continue
  /\ \E w \in WriteOutcomes :
       LET l == LoadFromFile(file, w)
           movies == loc[t].searchResult.movies
           i == Len(loc[t].enriched) + 1
           movie == movies[i]
           annotated == [title |-> movie.title, imdbID |-> movie.imdbID,
                         year |-> movie.year, poster |-> movie.poster,
                         isFavorite |-> Exists(l.favorites, movie.imdbID)]
       IN  /\ file' = l.file
           /\ favorites' = l.favorites
           /\ Step(t, IF i = Len(movies) THEN "search_await_all"
                      ELSE "search_mapping",
                   [loc[t] EXCEPT !.enriched = Append(@, annotated),
                                  !.observed = Append(@, l.favorites)], NoRes,
                   l.file, l.wtried, l.wfail, TRUE)

\* return { movies: enrichedMovies, totalResults: searchResult.totalResults }
SearchReturn(t) ==
  /\ pc[t] = "search_await_all"
  /\ Runnable(t)
  /\ Continue
  /\ Step(t, "done", NoLoc,
          Ok([movies |-> loc[t].enriched,
              totalResults |-> loc[t].searchResult.totalResults]),
          file, FALSE, FALSE, FALSE)
  /\ UNCHANGED <<file, favorites>>

\* ----------------------------------------------------------------- caller
\* the caller takes the outcome; the request slot is free again
Return(t) ==
  /\ pc[t] = "done"
  /\ Runnable(t)
  /\ last' = IF serial
             THEN [op |-> op[t], arg |-> arg[t], res |-> res[t], pre |-> pre[t]]
             ELSE last
  /\ pc' = [pc EXCEPT ![t] = "idle"]
  /\ op' = [op EXCEPT ![t] = "none"]
  /\ arg' = [arg EXCEPT ![t] = NoArg]
  /\ loc' = [loc EXCEPT ![t] = NoLoc]
  /\ res' = [res EXCEPT ![t] = NoRes]
  /\ pre' = [pre EXCEPT ![t] = <<>>]
  /\ touched' = [touched EXCEPT ![t] = FALSE]
  /\ wtried' = [wtried EXCEPT ![t] = FALSE]
  /\ wfail' = [wfail EXCEPT ![t] = FALSE]
  /\ reads' = [reads EXCEPT ![t] = FALSE]
  /\ gcalls' = [gcalls EXCEPT ![t] = <<>>]
  /\ answer' = [answer EXCEPT ![t] = NoAnswer]
  /\ gout' = [gout EXCEPT ![t] = NoRes]
  /\ UNCHANGED <<file, favorites, cpu, serial, calls, ui>>

Next ==
  \/ \E t \in Tasks, m \in MovieInputs : AddCall(t, m)
  \/ \E t \in Tasks : AddResume(t)
  \/ \E t \in Tasks : SavePush(t)
  \/ \E t \in Tasks : SaveWrite(t)
  \/ \E t \in Tasks : AddReturn(t)
  \/ \E t \in Tasks, id \in IdInputs : RemoveCall(t, id)
  \/ \E t \in Tasks : RemoveFind(t)
  \/ \E t \in Tasks : RemoveWrite(t)
  \/ \E t \in Tasks : RemoveResume(t)
  \/ \E t \in Tasks : Return(t)

\* the read-only use case on its own, over collections of every size up to MaxLen
NextPaging ==
  \/ \E t \in Tasks, page \in PageInputs, pageSize \in PageSizeInputs :
       GetFavoritesCall(t, page, pageSize)
  \/ \E t \in Tasks : GetFavoritesResume(t)
  \/ \E t \in Tasks : Return(t)

\* searches, with removals in flight beside them
NextSearch ==
  \/ \E t \in Tasks, title \in TitleInputs, page \in SearchPageInputs :
       SearchCall(t, title, page)
  \/ \E t \in Tasks, o \in ProviderOutcomes : GatewaySettle(t, o)
  \/ \E t \in Tasks : GatewayTimeout(t)
  \/ \E t \in Tasks : SearchResume(t)
  \/ \E t \in Tasks : SearchExists(t)
  \/ \E t \in Tasks : SearchReturn(t)
  \/ \E t \in Tasks, id \in IdInputs : RemoveCall(t, id)
  \/ \E t \in Tasks : RemoveFind(t)
  \/ \E t \in Tasks : RemoveWrite(t)
  \/ \E t \in Tasks : RemoveResume(t)
  \/ \E t \in Tasks : Return(t)

\* the additions made beside a search: the movies the provider returns
SnapshotAdds == {m \in MovieInputs : m.imdbID \in {<<"a">>, <<"b">>}}

\* searches, with additions and removals in flight beside them
NextSnapshot ==
  \/ NextSearch
  \/ \E t \in Tasks, m \in SnapshotAdds : AddCall(t, m)
  \/ \E t \in Tasks : AddResume(t)
  \/ \E t \in Tasks : SavePush(t)
  \/ \E t \in Tasks : SaveWrite(t)
  \/ \E t \in Tasks : AddReturn(t)

\* ------------------------------------------------------------ controller
\* the page numbers ParseIntPipe lets through are integers
HttpPageInputs == {Num(0), Num(1), Num(2)}

Max(a, b) == IF a >= b THEN a ELSE b

\* DELETE /movies/favorites/:imdbID. A blank id is answered at once with the
\* body { error: "Movie ID is required" } and the status of @HttpCode(OK);
\* any other id goes trimmed to the service, whose outcome the handler
\* passes on (a value inside a MessageResponseDto, an exception as thrown).
ControllerRemove(t, imdbID) ==
  IF InvalidId(imdbID)
  THEN /\ Begin(t, "remove", [imdbID |-> imdbID])
       /\ Step(t, "done", NoLoc, Ok([error |-> "Movie ID is required"]),
               file, FALSE, FALSE, FALSE)
       /\ UNCHANGED <<file, favorites>>
  ELSE RemoveCall(t, Trim(imdbID))

\* GET /movies/search?q=&page=. A blank query is answered at once with
\* SearchResultsDto.create([], "0"); otherwise the trimmed query and
\* Math.max(1, page) go to the service.
ControllerSearch(t, query, page) ==
  IF InvalidTitle(query)
  THEN /\ Call(t, "search", [title |-> query, page |-> page])
       /\ Step(t, "done", NoLoc,
               Ok([movies |-> <<>>, count |-> 0, totalResults |-> <<"0">>]),
               file, FALSE, FALSE, FALSE)
       /\ UNCHANGED <<file, favorites, gcalls, answer, gout>>
  ELSE SearchCall(t, Trim(query), Num(Max(1, page.whole)))

\* requests arriving over HTTP
NextController ==
  \/ \E t \in Tasks, q \in TitleInputs, page \in HttpPageInputs :
       ControllerSearch(t, q, page)
  \/ \E t \in Tasks, o \in ProviderOutcomes : GatewaySettle(t, o)
  \/ \E t \in Tasks : GatewayTimeout(t)
  \/ \E t \in Tasks : SearchResume(t)
  \/ \E t \in Tasks : SearchExists(t)
  \/ \E t \in Tasks : SearchReturn(t)
  \/ \E t \in Tasks, id \in IdInputs : ControllerRemove(t, id)
  \/ \E t \in Tasks : RemoveFind(t)
  \/ \E t \in Tasks : RemoveWrite(t)
  \/ \E t \in Tasks : RemoveResume(t)
  \/ \E t \in Tasks : Return(t)

\* the browser opens the application on a backend at rest
InitBrowser ==
  /\ Constructed(ArrayFile(<<>>), "ok")
  /\ serial = FALSE
  /\ InitRest

\* ------------------------------------------------------- search page
\* what the user types into the search bar
QueryInputs == { <<>>, <<" ">>, <<"x">>, <<" ", "y">> }

\* the status of a response that is not ok, or 0 when fetch itself rejects
FailureStatuses == {0, 400, 404, 409, 499, 500, 504}

\* movieApi.searchMovies: the response body, or an ApiError
SearchApiOutcomes == {NoError} \cup {ApiError(st) : st \in FailureStatuses}

\* a retry option that allows one more retry
ShouldRetry_UpToThree(failureCount, error) ==
  IF error.kind = "ApiError" /\ error.status >= 400 /\ error.status < 500
  THEN FALSE
  ELSE failureCount <= 3

\* retry: (failureCount, error) => ... of useSearchMovies
ShouldRetry(failureCount, error) ==
  IF error.kind = "ApiError" /\ error.status >= 400 /\ error.status < 500
  THEN FALSE
  ELSE failureCount < 3

RECURSIVE Pow2(_)
Pow2(n) == IF n = 0 THEN 1 ELSE 2 * Pow2(n - 1)

\* retryDelay: (attemptIndex) => Math.min(1000 * 2 ** attemptIndex, 30000)
RetryDelay(attemptIndex) == Min(1000 * Pow2(attemptIndex), 30000)

\* the query starts over: first call of queryFn by a new retryer
Fetching(q) ==
  [q EXCEPT !.status = "fetching", !.failureCount = 0, !.attempts = 1,
            !.error = NoError, !.delay = 0]

\* handleSearch: a blank query is ignored; otherwise the trimmed query is
\* set, the query enabled, and useSearchMovies fetches the new key
HandleSearch(query) ==
  /\ ui.q.searches < MaxSearches
  /\ Len(Trim(query)) # 0
  /\ ui' = [ui EXCEPT !.q = [Fetching(ui.q) EXCEPT !.query = Trim(query),
                                                  !.searches = ui.q.searches + 1]]
  /\ UNCHANGED backend

\* queryFn settles. On a failure the retryer asks retry(failureCount, error):
\* yes - it counts the failure and sleeps retryDelay(failureCount); no - the
\* query goes to the error state.
QueryFnSettle(o) ==
  /\ ui.q.status = "fetching"
  /\ LET q == ui.q
     IN  ui' = [ui EXCEPT !.q =
           IF o = NoError
           THEN [q EXCEPT !.status = "success", !.error = NoError]
           ELSE IF ShouldRetry(q.failureCount, o)
           THEN [q EXCEPT !.status = "waiting", !.error = o,
                          !.delay = RetryDelay(q.failureCount),
                          !.failureCount = q.failureCount + 1]
           ELSE [q EXCEPT !.status = "error", !.error = o]]
  /\ UNCHANGED backend

\* the retry delay is over: the retryer calls queryFn again
RetryTimer ==
  /\ ui.q.status = "waiting"
  /\ ui' = [ui EXCEPT !.q = [ui.q EXCEPT !.status = "fetching",
                                        !.attempts = ui.q.attempts + 1]]
  /\ UNCHANGED backend

\* isPending of a mutation hook now: its observer's mutation is in flight
IsPending(k) == \E x \in ui.m.inflight : x.id = ui.m.current[k]

\* the movie cards on the page
CardInputs == { [imdbID |-> id, isFavorite |-> b] : id \in {"a", "b"}, b \in BOOLEAN }

\* handleToggleFavorite(movie), up to its await: the guard reads isPending of
\* the hook results the callback closed over at the last render; past it,
\* mutateAsync starts a mutation which the hook's observer follows from now
HandleToggleFavorite(movie) ==
  /\ ui.m.clicks < MaxClicks
  /\ UNCHANGED backend
  /\ IF ui.m.rendered.add \/ ui.m.rendered.remove
     THEN ui' = [ui EXCEPT !.m.clicks = ui.m.clicks + 1]
     ELSE LET k == IF movie.isFavorite THEN "remove" ELSE "add"
              id == ui.m.clicks + 1
          IN  ui' = [ui EXCEPT !.m.clicks = id,
                               !.m.current[k] = id,
                               !.m.inflight = ui.m.inflight \cup
                                  {[id |-> id, kind |-> k, imdbID |-> movie.imdbID]}]

\* React renders the page again after the mutation observers notified it:
\* the hook results, and the callback made from them, are new
Render ==
  /\ ui.m.rendered # [add |-> IsPending("add"), remove |-> IsPending("remove")]
  /\ ui' = [ui EXCEPT !.m.rendered =
                        [add |-> IsPending("add"), remove |-> IsPending("remove")]]
  /\ UNCHANGED backend

\* a mutation settles; onSuccess invalidates ['movies', 'search'], which
\* makes the query on the page fetch again
MutationSettle(id, ok) ==
  /\ \E x \in ui.m.inflight : x.id = id
  /\ ui' = [ui EXCEPT !.m.inflight = {x \in ui.m.inflight : x.id # id},
                      !.q = IF ok /\ ui.q.status # "idle" THEN Fetching(ui.q)
                            ELSE ui.q]
  /\ UNCHANGED backend

NextSearchPage ==
  \/ \E query \in QueryInputs : HandleSearch(query)
  \/ \E o \in SearchApiOutcomes : QueryFnSettle(o)
  \/ RetryTimer
  \/ \E movie \in CardInputs : HandleToggleFavorite(movie)
  \/ Render
  \/ \E id \in 1..MaxClicks, ok \in BOOLEAN : MutationSettle(id, ok)

\* ---------------------------------------------------- favorites page
\* @Query("pageSize", new DefaultValuePipe(10), ...): the page size of a
\* request that names none, as movieApi.getFavorites(page) does
DefaultPageSize == 10

\* favorites?.data.favorites?.length ?? 0
FavoritesCount(f) ==
  IF f.cache[f.currentPage].has THEN Len(f.cache[f.currentPage].ids) ELSE 0

\* isLoading of useFavorites(currentPage): no data yet and a fetch under way
IsLoading(f) == ~f.cache[f.currentPage].has /\ f.currentPage \in f.fetching

\* the dependencies of the effect:
\* [favorites?.data.favorites?.length, currentPage, isLoading]
EffectDeps(f) ==
  <<IF f.cache[f.currentPage].has THEN Len(f.cache[f.currentPage].ids) ELSE -1,
    f.currentPage, IsLoading(f)>>

\* React commits the new state: the effect is due when a dependency changed
Commit(g) ==
  ui' = [ui EXCEPT !.f = [g EXCEPT !.effectDue =
                            ui.f.effectDue \/ EffectDeps(g) # EffectDeps(ui.f)]]

\* useFavorites(page) on a new key: a missing or stale entry is fetched
Observe(f, page) ==
  [f EXCEPT !.currentPage = page,
            !.fetching = IF ~f.cache[page].has \/ f.cache[page].stale
                         THEN f.fetching \cup {page} ELSE f.fetching]

\* the previous page, jumping to the first one
PrevPage_First(prev) == 1

\* (prev) => Math.max(1, prev - 1)
PrevPage(prev) == Max(1, prev - 1)

\* the page is opened: currentPage is 1 and its query fetches
FavoritesMount ==
  /\ ~ui.f.mounted
  /\ ui' = [ui EXCEPT !.f = [Observe(ui.f, 1) EXCEPT !.mounted = TRUE,
                                                          !.effectDue = TRUE]]
  /\ UNCHANGED backend

\* GET /movies/favorites/list?page= settles: the controller's answer from
\* the collection as it is now, or a failure that leaves the entry as it was
FavoritesFetchSettle(page, ok) ==
  /\ page \in ui.f.fetching
  /\ LET r == FavoritesList(Durable(file), Max(1, page), DefaultPageSize)
         entry == IF ok
                  THEN [has |-> TRUE,
                        ids |-> [i \in 1..Len(r.favorites) |-> r.favorites[i].imdbID],
                        totalPages |-> r.totalPages, stale |-> FALSE]
                  ELSE ui.f.cache[page]
     IN  Commit([ui.f EXCEPT !.cache[page] = entry,
                             !.fetching = ui.f.fetching \ {page}])
  /\ UNCHANGED backend

\* the effect: back to the previous page when the page shown is empty
FavoritesEffect ==
  /\ ui.f.effectDue
  /\ LET f == [ui.f EXCEPT !.effectDue = FALSE]
     IN  IF FavoritesCount(f) = 0 /\ f.currentPage > 1 /\ ~IsLoading(f)
         THEN Commit([Observe(f, PrevPage(f.currentPage))
                        EXCEPT !.backs = f.backs + 1])
         ELSE ui' = [ui EXCEPT !.f = f]
  /\ UNCHANGED backend

\* handlePageChange(page)
FavoritesPageChange(page) ==
  /\ ui.f.mounted
  /\ ui.f.navigations < MaxNavigations
  /\ ~(page < 1 \/ page > ui.f.cache[ui.f.currentPage].totalPages)
  /\ Commit([Observe(ui.f, page) EXCEPT !.navigations = ui.f.navigations + 1])
  /\ UNCHANGED backend

\* handleRemoveFavorite(movie) for the first movie shown (i = 1) or the
\* last one, up to its await
FavoritesRemoveClick(i) ==
  /\ ui.f.removes < MaxRemoves
  /\ i \in {1, FavoritesCount(ui.f)}
  /\ FavoritesCount(ui.f) > 0
  /\ IF ui.f.renderedPending
     THEN ui' = [ui EXCEPT !.f.removes = ui.f.removes + 1]
     ELSE ui' = [ui EXCEPT !.f.removes = ui.f.removes + 1,
                           !.f.inflight = ui.f.inflight \cup
                              {ui.f.cache[ui.f.currentPage].ids[i]}]
  /\ UNCHANGED backend

\* React renders the favorites page again with isPending of the remove hook
FavoritesRender ==
  /\ ui.f.renderedPending # (ui.f.inflight # {})
  /\ ui' = [ui EXCEPT !.f.renderedPending = (ui.f.inflight # {})]
  /\ UNCHANGED backend

\* DELETE /movies/favorites/:imdbID is answered: the entry is gone and
\* onSuccess invalidates ['movies', 'favorites'], so every cached page is
\* stale and the page shown is fetched again; or the request fails
FavoritesRemoveSettle(id, ok) ==
  /\ id \in ui.f.inflight
  /\ LET favs == Durable(file)
         index == FindIndex(favs, id)
         f == [ui.f EXCEPT !.inflight = ui.f.inflight \ {id}]
     IN  IF ok /\ index # 0
         THEN /\ file' = SaveToFile(file, Splice(favs, index), "ok").file
              /\ favorites' = Splice(favs, index)
              /\ Commit([f EXCEPT
                           !.cache = [p \in DOMAIN f.cache |->
                                        [f.cache[p] EXCEPT !.stale = f.cache[p].has]],
                           !.fetching = f.fetching \cup {f.currentPage}])
         ELSE /\ ui' = [ui EXCEPT !.f = f]
              /\ UNCHANGED <<file, favorites>>
  /\ UNCHANGED <<pc, op, arg, loc, res, cpu, serial, calls, pre, touched,
                 wtried, wfail, reads, gcalls, answer, gout, last>>

FavoritesIds == {Stored(i).imdbID : i \in 1..MaxFavorites}

NextFavoritesPage ==
  \/ FavoritesMount
  \/ \E page \in 1..Ceil(MaxFavorites + 1, 10), ok \in BOOLEAN :
       FavoritesFetchSettle(page, ok)
  \/ FavoritesEffect
  \/ \E page \in 0..(Ceil(MaxFavorites + 1, 10) + 1) : FavoritesPageChange(page)
  \/ \E i \in 1..DefaultPageSize : FavoritesRemoveClick(i)
  \/ FavoritesRender
  \/ \E id \in FavoritesIds, ok \in BOOLEAN : FavoritesRemoveSettle(id, ok)

\* the collections the favorites page is opened on
InitFavorites ==
  /\ \E n \in {0, 1, DefaultPageSize + 1, MaxFavorites} :
       Constructed(ArrayFile([i \in 1..n |-> Stored(i)]), "ok")
  /\ serial = FALSE
  /\ InitRest

\* React runs an effect that is due, and every request is answered
FairFavoritesPage ==
  /\ WF_vars(FavoritesEffect)
  /\ \A page \in 1..Ceil(MaxFavorites + 1, 10) :
       WF_vars(\E ok \in BOOLEAN : FavoritesFetchSettle(page, ok))

Spec == Init /\ [][Next]_vars
SpecSerial == InitSerial /\ [][Next]_vars
SpecEmpty == InitEmpty /\ [][Next]_vars
SpecPaging == InitPaging /\ [][NextPaging]_vars
SpecSearch == InitSearch /\ [][NextSearch]_vars

\* the event loop runs every continuation that is ready, and the timer of
\* axios fires; callers need not call and the provider need not answer
FairSearch ==
  \A t \in Tasks :
    /\ WF_vars(GatewayTimeout(t))
    /\ WF_vars(SearchResume(t))
    /\ WF_vars(SearchExists(t))
    /\ WF_vars(SearchReturn(t))
    /\ WF_vars(RemoveFind(t))
    /\ WF_vars(RemoveWrite(t))
    /\ WF_vars(RemoveResume(t))

SpecSearchFair == InitSearch /\ [][NextSearch]_vars /\ FairSearch
SpecSnapshot == Init /\ [][NextSnapshot]_vars
SpecController == InitSearch /\ [][NextController]_vars
SpecFavoritesPage == InitFavorites /\ [][NextFavoritesPage]_vars /\ FairFavoritesPage
SpecSearchPage == InitBrowser /\ [][NextSearchPage]_vars

\* ----------------------------------------------------------------- claims
IsDone(t, o) == pc[t] = "done" /\ op[t] = o

EqualIgnoringCase(a, b) == ToLowerCase(a) = ToLowerCase(b)

\* the positions between the reload and the persist of a store save / remove
MidMutation == {"save_loaded", "save_pushed", "remove_loaded", "remove_spliced"}

\* a list without its first entry whose imdbID equals id ignoring case
WithoutFirst(favs, id) ==
  LET hits == {i \in 1..Len(favs) : EqualIgnoringCase(favs[i].imdbID, id)}
  IN  IF hits = {} THEN favs
      ELSE LET i == CHOOSE h \in hits : \A g \in hits : h <= g
           IN  SubSeq(favs, 1, i - 1) \o SubSeq(favs, i + 1, Len(favs))

\* the four persisted properties of two movie objects agree
SameMovie(a, b) ==
  \A k \in {"title", "imdbID", "year", "poster"} : Get(a, k) = Get(b, k)

\* C1: started from an empty collection, the persisted favorites never hold
\* two entries whose imdbID are equal ignoring case.
C1_UniqueImdbIDs ==
  LET d == Durable(file)
  IN  \A i, j \in 1..Len(d) :
        i # j => ~EqualIgnoringCase(d[i].imdbID, d[j].imdbID)

\* C2: while one request is between the reload and the persist of a store
\* save or remove no other request takes a step, and the persist leaves the
\* durable collection equal to the one it found with its own change applied,
\* so no concurrent call's update is lost.
C2_NoLostUpdate ==
  [][\A t \in Tasks :
       /\ pc[t] \in MidMutation => \A u \in Tasks \ {t} : pc'[u] = pc[u]
       /\ (pc[t] = "save_pushed" /\ pc'[t] = "add_await_save")
            => Durable(file') = Append(Durable(file), JsonObject(loc[t]))
       /\ (pc[t] = "remove_spliced" /\ pc'[t] = "remove_await")
            => Durable(file') = WithoutFirst(Durable(file), Trim(arg[t].imdbID))]_vars

\* C2 witness: r1 stands between push and write while r2, a concurrent add,
\* is suspended between its exists check and its save.
C2_Witness ==
  /\ pc["r1"] = "save_pushed"
  /\ pc["r2"] = "add_await_exists"
  /\ ~loc["r2"].exists

\* C3: with a caller that awaits each call, after addToFavorites(m) succeeded
\* for an imdbID that is not blank, exists(m.imdbID) is true, and a following
\* addToFavorites(m) fails with MovieAlreadyExistsException.
C3_AddThenExists ==
  (serial /\ last.op = "add" /\ last.res.kind = "ok"
     /\ Len(Trim(last.arg.imdbID)) > 0)
    => /\ (\A t \in Tasks : pc[t] = "idle")
            => Exists(Durable(file), last.arg.imdbID)
       /\ \A t \in Tasks :
            (IsDone(t, "add") /\ arg[t] = last.arg)
              => res[t] = Err("MovieAlreadyExists")

\* C4 as stated: addToFavorites called with an imdbID for which exists is
\* already true fails with MovieAlreadyExistsException and changes nothing.
C4_Original ==
  \A t \in Tasks :
    (IsDone(t, "add") /\ Exists(pre[t], arg[t].imdbID))
      => res[t] = Err("MovieAlreadyExists") /\ ~touched[t]

\* C4 amended: addToFavorites called with a movie that passes validation
\* (non-empty imdbID and title) and an imdbID for which exists is already
\* true fails with MovieAlreadyExistsException and changes nothing.
C4_DuplicateRejected ==
  \A t \in Tasks :
    (IsDone(t, "add") /\ ~InvalidMovie(arg[t]) /\ Exists(pre[t], arg[t].imdbID))
      => res[t] = Err("MovieAlreadyExists") /\ ~touched[t]

\* C4 witness: a validated add of an imdbID already stored was rejected.
C4_Witness ==
  \E t \in Tasks :
    /\ IsDone(t, "add")
    /\ ~InvalidMovie(arg[t])
    /\ Exists(pre[t], arg[t].imdbID)
    /\ res[t] = Err("MovieAlreadyExists")

\* C5 as stated: removeFromFavorites of a non-empty imdbID that no entry
\* equals ignoring case fails with MovieNotFoundException and changes nothing.
C5_Original ==
  \A t \in Tasks :
    (IsDone(t, "remove") /\ arg[t].imdbID # <<>>
       /\ ~Exists(pre[t], arg[t].imdbID))
      => res[t] = Err("MovieNotFound") /\ ~touched[t]

\* C5 amended: removeFromFavorites of an imdbID that is non-empty after
\* trimming and whose trimmed value no entry equals ignoring case fails with
\* MovieNotFoundException and changes nothing.
C5_NotFound ==
  \A t \in Tasks :
    (IsDone(t, "remove") /\ Len(Trim(arg[t].imdbID)) > 0
       /\ ~Exists(pre[t], Trim(arg[t].imdbID)))
      => res[t] = Err("MovieNotFound") /\ ~touched[t]

\* C5 witness: a remove of an unknown imdbID on a non-empty collection failed
\* with MovieNotFoundException.
C5_Witness ==
  \E t \in Tasks :
    /\ IsDone(t, "remove")
    /\ Len(pre[t]) > 0
    /\ ~Exists(pre[t], Trim(arg[t].imdbID))
    /\ res[t] = Err("MovieNotFound")

\* C6: with a caller that awaits each call, addToFavorites(m) for an imdbID
\* that is not blank followed by removeFromFavorites(m.imdbID) returns m with
\* title and imdbID trimmed and leaves as many entries as there were before
\* the add (a remove that fails on a storage fault aside).
C6_RoundTrip ==
  \A t \in Tasks :
    (/\ serial
     /\ IsDone(t, "remove")
     /\ last.op = "add"
     /\ last.res.kind = "ok"
     /\ arg[t].imdbID = last.arg.imdbID
     /\ Len(Trim(last.arg.imdbID)) > 0
     /\ res[t] # Err("Storage"))
      => /\ res[t].kind = "ok"
         /\ SameMovie(res[t].val,
                      [title |-> Trim(last.arg.title),
                       imdbID |-> Trim(last.arg.imdbID),
                       year |-> last.arg.year, poster |-> last.arg.poster])
         /\ Len(Durable(file)) = Len(last.pre)

C8_WriteFailurePropagates ==
  \A t \in Tasks : (pc[t] = "done" /\ wfail[t]) => res[t] = Err("Storage")

\* C9: a findAll that read malformed data returned the empty list and
\* attempted to write the empty collection back.
C9_SelfHealing ==
  \A t \in Tasks :
    (pc[t] = "get_await" /\ file.kind \in {"object", "garbage"})
      => loc[t].allFavorites = <<>> /\ wtried[t]

\* a positive integer; an integer between lo and hi
IsPositiveInteger(x) == ~x.nan /\ ~x.half /\ x.whole >= 1
IsIntegerWithin(x, lo, hi) == ~x.nan /\ ~x.half /\ x.whole \in lo..hi

\* the arguments getFavorites accepts: a positive integer page and an integer
\* pageSize between 1 and 100
ValidPaging(a) ==
  IsPositiveInteger(a.page) /\ IsIntegerWithin(a.pageSize, 1, 100)

\* q = ceil(n / d), stated without division
IsCeiling(q, n, d) == q * d >= n /\ (q - 1) * d < n

\* C10: for every collection and valid (page, pageSize) getFavorites succeeds
\* with totalResults the size of the collection, currentPage the page asked
\* for, count the number of items returned, totalPages = ceil(totalResults /
\* pageSize); on an empty collection: no items and all three counts 0.
C10_PageMetadata ==
  \A t \in Tasks :
    (IsDone(t, "get") /\ ValidPaging(arg[t]))
      => /\ res[t].kind = "ok"
         /\ LET r == res[t].val
            IN  /\ r.totalResults = Len(pre[t])
                /\ r.currentPage = arg[t].page.whole
                /\ r.count = Len(r.favorites)
                /\ IsCeiling(r.totalPages, r.totalResults, arg[t].pageSize.whole)
                /\ Len(pre[t]) = 0
                     => r.favorites = <<>> /\ r.count = 0 /\ r.totalPages = 0

\* C10 witness: a page of a collection whose size is no multiple of pageSize.
C10_Witness ==
  \E t \in Tasks :
    /\ IsDone(t, "get")
    /\ res[t].kind = "ok"
    /\ res[t].val.totalResults = 3
    /\ arg[t].pageSize = Num(2)
    /\ res[t].val.totalPages = 2

\* the ceiling of n / d
CeilingOf(n, d) == CHOOSE q \in 0..n : IsCeiling(q, n, d)

\* C11: on a non-empty collection, a valid page beyond the last one makes
\* getFavorites succeed with no items, count 0, the true totalResults and
\* totalPages = ceil(totalResults / pageSize).
C11_PageBeyondEnd ==
  \A t \in Tasks :
    (/\ IsDone(t, "get")
     /\ ValidPaging(arg[t])
     /\ Len(pre[t]) > 0
     /\ arg[t].page.whole > CeilingOf(Len(pre[t]), arg[t].pageSize.whole))
      => /\ res[t].kind = "ok"
         /\ res[t].val.favorites = <<>>
         /\ res[t].val.count = 0
         /\ res[t].val.totalResults = Len(pre[t])
         /\ res[t].val.totalPages = CeilingOf(Len(pre[t]), arg[t].pageSize.whole)

\* C11 witness: page 3 of a collection of three entries in pages of two.
C11_Witness ==
  \E t \in Tasks :
    /\ IsDone(t, "get")
    /\ Len(pre[t]) = 3
    /\ arg[t] = [page |-> Num(3), pageSize |-> Num(2)]
    /\ res[t].kind = "ok"
    /\ res[t].val.count = 0

\* C12: getFavorites fails with InvalidPaginationException exactly when page
\* is not a positive integer or pageSize is not an integer in [1,100], and a
\* call with such arguments invokes no operation of the store.
C12_PaginationValidation ==
  \A t \in Tasks :
    /\ IsDone(t, "get")
         => (res[t] = Err("InvalidPagination") <=> ~ValidPaging(arg[t]))
    /\ (op[t] = "get" /\ ~ValidPaging(arg[t])) => ~reads[t]

\* C12 witness: a call rejected for a pageSize that is a number between 1 and
\* 100 but no integer, and one accepted that has read the store.
C12_Witness ==
  /\ IsDone("r1", "get")
  /\ arg["r1"] = [page |-> Num(1), pageSize |-> AndAHalf(1)]
  /\ res["r1"] = Err("InvalidPagination")
  /\ IsDone("r2", "get")
  /\ res["r2"].kind = "ok"
  /\ reads["r2"]

\* C13: a getFavorites call changes nothing of what store reads return, two
\* calls in flight with the same arguments get the same result, and so does
\* a call that follows another with the same arguments.
C13_PureRead ==
  \A t \in Tasks :
    /\ op[t] = "get" => ~touched[t]
    /\ \A u \in Tasks :
         (IsDone(t, "get") /\ IsDone(u, "get") /\ arg[t] = arg[u])
           => res[t] = res[u]
    /\ (serial /\ IsDone(t, "get") /\ last.op = "get" /\ last.arg = arg[t])
         => res[t] = last.res

\* C13 witness: a second call returned a non-empty page, as the one before.
C13_Witness ==
  \E t \in Tasks :
    /\ serial
    /\ IsDone(t, "get")
    /\ last.op = "get"
    /\ last.arg = arg[t]
    /\ res[t].kind = "ok"
    /\ res[t].val.count > 0
    /\ last.res = res[t]

\* the errors the service raises for bad input
ValidationErrors ==
  {Err("SearchQueryRequired"), Err("InvalidPagination"), Err("InvalidMovieData")}

\* the collection holds an entry with this imdbID, ignoring case
Holds(favs, id) == \E i \in 1..Len(favs) : EqualIgnoringCase(favs[i].imdbID, id)

\* C14: searchMovies with a title that is empty after trimming or a page
\* that is no positive integer fails with a validation error without calling
\* the gateway or the store; any other call has called the gateway exactly
\* once, with the trimmed title and the page.
C14_SearchValidation ==
  \A t \in Tasks :
    op[t] = "search" =>
      IF Len(Trim(arg[t].title)) = 0 \/ ~IsPositiveInteger(arg[t].page)
      THEN /\ pc[t] = "done"
           /\ res[t] \in ValidationErrors
           /\ gcalls[t] = <<>>
           /\ ~reads[t]
      ELSE gcalls[t] = <<[title |-> Trim(arg[t].title), page |-> arg[t].page]>>

\* C14 witness: one search rejected for a blank title, another one completed
\* after a gateway call with a title that had to be trimmed.
C14_Witness ==
  /\ IsDone("r1", "search")
  /\ arg["r1"].title = <<" ">>
  /\ res["r1"] = Err("SearchQueryRequired")
  /\ IsDone("r2", "search")
  /\ res["r2"].kind = "ok"
  /\ gcalls["r2"][1].title # arg["r2"].title

\* C15: with a caller that awaits each call, a successful searchMovies returns
\* the gateway's movies in the gateway's order, each flagged isFavorite exactly
\* when the collection holds its imdbID ignoring case, and the gateway's
\* totalResults.
C15_SearchAnnotates ==
  \A t \in Tasks :
    (serial /\ IsDone(t, "search") /\ res[t].kind = "ok")
      => LET got == gout[t].val
             out == res[t].val
         IN  /\ gout[t].kind = "ok"
             /\ out.totalResults = got.totalResults
             /\ Len(out.movies) = Len(got.movies)
             /\ \A i \in 1..Len(out.movies) :
                  /\ SameMovie(out.movies[i], got.movies[i])
                  /\ out.movies[i].isFavorite
                       <=> Holds(Durable(file), got.movies[i].imdbID)

\* C15 witness: two movies returned, the one whose imdbID is stored in another
\* case flagged, the other not.
C15_Witness ==
  \E t \in Tasks :
    /\ serial
    /\ IsDone(t, "search")
    /\ res[t].kind = "ok"
    /\ Len(res[t].val.movies) = 2
    /\ ~res[t].val.movies[1].isFavorite
    /\ res[t].val.movies[2].isFavorite
    /\ res[t].val.movies[2].imdbID = <<"A">>

\* C16: at the step with which searchMovies returns, every movie it flagged
\* isFavorite has an entry with its imdbID in the store.
C16_AnnotationSound ==
  [][\A t \in Tasks :
       (pc[t] = "search_await_all" /\ pc'[t] = "done")
         => \A i \in 1..Len(res'[t].val.movies) :
              res'[t].val.movies[i].isFavorite
                => Holds(Durable(file'), res'[t].val.movies[i].imdbID)]_vars

\* the provider's "no results" signal
NoResultsSignal(o) ==
  o.kind = "response" /\ Has(o.data, "Response") /\ o.data.Response = "False"

\* C17: when the provider answers with its "no results" signal the gateway
\* returns the empty result, and searchMovies returns no movies and
\* totalResults "0", not an error.
C17_NoResultsIsEmpty ==
  \A t \in Tasks :
    NoResultsSignal(answer[t])
      => /\ gout[t] = Ok([movies |-> <<>>, totalResults |-> "0"])
         /\ pc[t] = "done" => res[t] = Ok([movies |-> <<>>, totalResults |-> "0"])

\* C17 witness: a search answered "no results" has returned.
C17_Witness ==
  \E t \in Tasks :
    /\ IsDone(t, "search")
    /\ NoResultsSignal(answer[t])
    /\ res[t].kind = "ok"

\* the outbound call failed without a response: a network failure or a timeout
NoResponse(o) == o.kind = "axios_error" /\ o.status = 0

\* C18 as stated: every network failure or timeout of the outbound call makes
\* the gateway fail with ExternalApiTimeoutException.
C18_Original ==
  \A t \in Tasks : NoResponse(answer[t]) => gout[t] = Err("ExternalApiTimeout")

\* C18 amended: every outbound call that axios aborts on the gateway's timeout
\* (error code ECONNABORTED) makes the gateway fail with
\* ExternalApiTimeoutException, and so searchMovies.
C18_TimeoutIsTimeout ==
  \A t \in Tasks :
    (answer[t].kind = "axios_error" /\ answer[t].code = "ECONNABORTED")
      => /\ gout[t] = Err("ExternalApiTimeout")
         /\ pc[t] = "done" => res[t] = Err("ExternalApiTimeout")

\* C18 witness: a search whose outbound call timed out has failed.
C18_Witness ==
  \E t \in Tasks :
    /\ IsDone(t, "search")
    /\ answer[t] = AxiosError("ECONNABORTED", 0)
    /\ res[t] = Err("ExternalApiTimeout")

GatewayErrors == {Err("ExternalApiTimeout"), Err("InvalidApiKey"), Err("ExternalApi")}

C20_FailuresPropagate ==
  \A t \in Tasks :
    pc[t] = "done"
      => /\ gout[t].kind = "error" => res[t] = gout[t]
         /\ wfail[t] => res[t] = Err("Storage")

\* a year or poster as the claim has it persisted: absent becomes ""
OrEmpty(v) == IF v = Undefined THEN <<>> ELSE v

\* C21: with a caller that awaits each call, the record a successful
\* addToFavorites returns, and the one it leaves last in the file, has the
\* trimmed title and imdbID, year and poster as given with "" for an absent
\* one, and no isFavorite.
C21_PersistedRecord ==
  \A t \in Tasks :
    (serial /\ IsDone(t, "add") /\ res[t].kind = "ok")
      => LET m == arg[t]
             expected == [title |-> Trim(m.title), imdbID |-> Trim(m.imdbID),
                          year |-> OrEmpty(m.year), poster |-> OrEmpty(m.poster)]
             d == Durable(file)
         IN  /\ SameMovie(res[t].val, expected)
             /\ Get(res[t].val, "isFavorite") = Undefined
             /\ Len(d) > 0
             /\ d[Len(d)] = expected

\* C22: started from an empty collection, every entry of the persisted
\* favorites has a non-empty title and a non-empty imdbID.
C22_PersistedAreValid ==
  LET d == Durable(file)
  IN  \A i \in 1..Len(d) : d[i].title # <<>> /\ d[i].imdbID # <<>>

\* C26: a request that meets a validation condition in the controller or in
\* the service (a blank imdbID to remove, a blank query to search) ends with
\* an exception, and no request ends with a value that carries an error.
C26_ErrorsAreThrown ==
  \A t \in Tasks :
    pc[t] = "done" =>
      /\ (op[t] = "remove" /\ InvalidId(arg[t].imdbID)) => res[t].kind = "error"
      /\ (op[t] = "search" /\ InvalidTitle(arg[t].title)) => res[t].kind = "error"
      /\ res[t].kind = "ok" => "error" \notin DOMAIN res[t].val

\* a sequence cut into consecutive blocks of n items, the last one shorter
\* when n does not divide its length; the blocks in order give it back
RECURSIVE Blocks(_, _)
Blocks(all, n) ==
  IF all = <<>> THEN <<>>
  ELSE IF Len(all) <= n THEN <<all>>
  ELSE <<SubSeq(all, 1, n)>> \o Blocks(SubSeq(all, n + 1, Len(all)), n)

\* C27: the pages partition the collection: with valid paging, totalPages is
\* the number of blocks of pageSize consecutive items the sequence of findAll
\* falls into, page p <= totalPages holds exactly the p-th block, and every
\* page before the last has exactly pageSize items.
C27_PagesPartition ==
  \A t \in Tasks :
    (IsDone(t, "get") /\ ValidPaging(arg[t]))
      => LET b == Blocks(pre[t], arg[t].pageSize.whole)
             p == arg[t].page.whole
         IN  /\ res[t].kind = "ok"
             /\ res[t].val.totalPages = Len(b)
             /\ p <= Len(b) => res[t].val.favorites = b[p]
             /\ p < Len(b) => Len(res[t].val.favorites) = arg[t].pageSize.whole

\* C27 witness: the second and last page of three entries in pages of two
\* holds the third entry alone.
C27_Witness ==
  \E t \in Tasks :
    /\ IsDone(t, "get")
    /\ Len(pre[t]) = 3
    /\ arg[t] = [page |-> Num(2), pageSize |-> Num(2)]
    /\ res[t].kind = "ok"
    /\ res[t].val.favorites = <<pre[t][3]>>

\* C28: when the file holds a list, the write of a save leaves in it exactly
\* the movie records it held, in their order, followed by the saved movie,
\* and the write of a remove leaves exactly the movie records it held, in
\* their order, without the first one whose imdbID matches: no other record
\* is dropped, changed or moved.
C28_OtherRecordsKept ==
  [][\A t \in Tasks :
       file.kind = "array" =>
         /\ (pc[t] = "save_pushed" /\ pc'[t] = "add_await_save")
              => file' = ArrayFile(Append(SelectValid(file.items), JsonObject(loc[t])))
         /\ (pc[t] = "remove_spliced" /\ pc'[t] = "remove_await")
              => file' = ArrayFile(WithoutFirst(SelectValid(file.items),
                                              Trim(arg[t].imdbID)))]_vars

\* C28 witness: a remove has taken the older of two entries out and the
\* younger one is still there.
C28_Witness ==
  \E t \in Tasks :
    /\ pc[t] = "remove_await"
    /\ loc[t].removed = <<StoredA>>
    /\ file.kind = "array"
    /\ Len(file.items) = 1
    /\ file.items[1].imdbID = <<"b">>

\* C29: the exists lookups of one searchMovies call all find the same
\* favorites collection, and each flag set so far is what that one collection
\* gives for the movie, whatever additions and removals are in flight.
C29_OneSnapshot ==
  \A t \in Tasks :
    (op[t] = "search" /\ pc[t] \in {"search_mapping", "search_await_all"})
      => LET seen == loc[t].observed
             movies == loc[t].searchResult.movies
         IN  /\ \A i, j \in 1..Len(seen) : seen[i] = seen[j]
             /\ \A i \in 1..Len(loc[t].enriched) :
                  loc[t].enriched[i].isFavorite <=> Holds(seen[1], movies[i].imdbID)

\* C29 witness: a search has looked two movies up, one of them a favorite,
\* while an addToFavorites is suspended between its check and its save.
C29_Witness ==
  \E t, u \in Tasks :
    /\ op[t] = "search"
    /\ pc[t] = "search_await_all"
    /\ Len(loc[t].observed) = 2
    /\ loc[t].enriched[2].isFavorite
    /\ pc[u] = "add_await_exists"

\* C23: every searchMovies call that was made comes to its end, with a
\* result or with an error, whether or not the provider ever answers.
C23_SearchCompletes ==
  \A t \in Tasks : (op[t] = "search" /\ pc[t] # "idle") ~> (pc[t] = "done")

\* C23 witness: the provider stayed silent, the timeout has fired and the
\* call is about to resume with the failure.
C23_Witness ==
  \E t \in Tasks :
    /\ op[t] = "search"
    /\ pc[t] = "search_await_gateway"
    /\ answer[t] = AxiosError("ECONNABORTED", 0)
    /\ gout[t] = Err("ExternalApiTimeout")

ClientError(e) == e.kind = "ApiError" /\ e.status \in 400..499

\* C24: a failure of the search query is retried only when it is no
\* ApiError with a status in [400,500) and fewer than 3 failures were
\* counted; queryFn is called at most 4 times for one fetch, and a failure
\* that is not retried puts the query in the error state.
C24_RetryPolicy ==
  [][LET a == ui.q
         b == ui'.q
         failed == a.status = "fetching" /\ b.status \in {"waiting", "error"}
     IN  /\ (a.status = "fetching" /\ b.status = "waiting")
              => (~ClientError(b.error) /\ a.failureCount < 3)
         /\ (failed /\ (ClientError(b.error) \/ a.attempts = 4))
              => b.status = "error"
         /\ b.attempts <= 4]_vars

\* C24 witness: the query failed four times with a 500 and reports the error.
C24_Witness ==
  /\ ui.q.status = "error"
  /\ ui.q.attempts = 4
  /\ ui.q.error = ApiError(500)

\* C25: at most one favorites mutation issued by the search page is in
\* flight at any time.
C25_OneMutationInFlight == Cardinality(ui.m.inflight) <= 1

\* the condition of the effect of the favorites page
ShownPageEmpty ==
  FavoritesCount(ui.f) = 0 /\ ui.f.currentPage > 1 /\ ~IsLoading(ui.f)

\* C30: whenever the page shown is loaded, has no items and is not the
\* first, the effect is due; when it runs currentPage goes down by exactly
\* one and stays at least 1; and from there the page comes to show a page
\* with items or the first page.
C30_BackNavigation ==
  /\ [](ShownPageEmpty => ui.f.effectDue)
  /\ [](ui.f.currentPage >= 1)
  /\ [][(ShownPageEmpty /\ ui'.f.backs # ui.f.backs)
          => ui'.f.currentPage = ui.f.currentPage - 1]_vars
  /\ ShownPageEmpty ~> (ui.f.currentPage = 1 \/ FavoritesCount(ui.f) > 0)

\* C30 witness: the only movie of page 3 was removed and the page has gone
\* back to page 2, which shows its ten movies.
C30_Witness ==
  /\ ui.f.backs = 1
  /\ ui.f.currentPage = 2
  /\ FavoritesCount(ui.f) = DefaultPageSize
  /\ Len(Durable(file)) = MaxFavorites - 1

====
